---- MODULE Spec2Model ----
(***************************************************************************)
(* Model of include_proto_dir (src/src/lib.rs): ProtoDir::extract writes   *)
(* an embedded directory tree below out_dir/proto and returns the paths    *)
(* matching "**/*.proto".                                                  *)
(*                                                                         *)
(* ProtoDir::extract is three lines: a join, a call of                     *)
(* include_dir::Dir::extract and a call of include_dir::Dir::find.  The    *)
(* two callees are modelled by what they do (include_dir 0.7, glob 0.3,    *)
(* std::fs): Dir::extract walks the entries in order, create_dir_all for a *)
(* directory entry and fs::write for a file entry, and returns at the      *)
(* first error; Dir::find walks the entries with a stack and keeps every   *)
(* entry, file or directory, whose path matches the pattern.  Each system  *)
(* call (mkdir, open, write) is one step, so that two calls can interleave.*)
(***************************************************************************)
EXTENDS Naturals, Sequences, FiniteSets

VARIABLES tree, outDir, fs0, ro, fs, pc, idx, cur, off, res, lookups, snap

vars == <<tree, outDir, fs0, ro, fs, pc, idx, cur, off, res, lookups, snap>>

(* ------------------------------ bounds -------------------------------- *)

\* Longest contents of a file that is on disk before the first call.
MaxLen == 2

\* Most paths below out_dir/proto that exist before the first call
\* (their ancestors not counted).
MaxPre == 2

(* ------------------------------ names --------------------------------- *)

\* The names that occur in paths; a path is a sequence of names.
nProto == "proto"
nReadme == "R.md"
nA == "a.proto"
nS == "s.proto"
nD == "d.proto"
nF == "f"
nV == "v1"
nOut == "out"
nTmp == "tmp"

\* The characters of a name.
Chars(n) ==
    CASE n = "proto" -> <<"p", "r", "o", "t", "o">>
      [] n = "R.md" -> <<"R", ".", "m", "d">>
      [] n = "a.proto" -> <<"a", ".", "p", "r", "o", "t", "o">>
      [] n = "s.proto" -> <<"s", ".", "p", "r", "o", "t", "o">>
      [] n = "d.proto" -> <<"d", ".", "p", "r", "o", "t", "o">>
      [] n = "f" -> <<"f">>
      [] n = "v1" -> <<"v", "1">>
      [] n = "out" -> <<"o", "u", "t">>
      [] n = "tmp" -> <<"t", "m", "p">>

\* The out_dir arguments a caller may pass.
OutDirs == {<<nOut>>, <<nTmp, nOut>>}

(* --------------------------- embedded trees --------------------------- *)

\* include_dir::DirEntry: a file with its contents or a directory with its
\* entries; every entry carries its path relative to the embedded root.
File(p, c) == [kind |-> "file", path |-> p, contents |-> c, entries |-> <<>>]
Dir(p, es) == [kind |-> "dir", path |-> p, contents |-> <<>>, entries |-> es]

\* The crate's own test tree, proto/foo/v1/foo.proto.
TTest == <<Dir(<<nF>>, <<Dir(<<nF, nV>>, <<File(<<nF, nV, nA>>, <<1, 2>>)>>)>>)>>
\* A tree without entries.
TEmpty == <<>>
\* Only a root-level file that is no .proto file.
TReadme == <<File(<<nReadme>>, <<1>>)>>
\* Root-level files before a directory; a file named "proto" without a dot.
TMixed == <<File(<<nReadme>>, <<2>>), File(<<nA>>, <<1, 2>>),
            Dir(<<nF>>, <<File(<<nF, nProto>>, <<>>)>>)>>
\* A directory before a root-level file.
TDirFirst == <<Dir(<<nF>>, <<File(<<nF, nA>>, <<2, 1>>)>>), File(<<nProto>>, <<1>>)>>
\* A directory whose own name ends in .proto.
TProtoDir == <<Dir(<<nD>>, <<File(<<nD, nReadme>>, <<1>>)>>)>>

\* What include_dir!(path) may have embedded.
Trees == {TTest, TEmpty, TReadme, TMixed, TDirFirst, TProtoDir}

RECURSIVE Walk(_)
\* The order in which Dir::extract reaches the entries: each directory
\* entry, then (d.extract(base_path)) its own entries, then the next one.
Walk(es) ==
    IF es = <<>> THEN <<>>
    ELSE LET e == Head(es)
         IN  <<e>> \o (IF e.kind = "dir" THEN Walk(e.entries) ELSE <<>>) \o Walk(Tail(es))

Range(s) == {s[i] : i \in 1..Len(s)}

EntryPaths(t) == {e.path : e \in Range(Walk(t))}

(* ----------------------------- filesystem ----------------------------- *)

Absent == [k |-> "none", data |-> <<>>]
DirNode == [k |-> "dir", data |-> <<>>]
FileNode(d) == [k |-> "file", data |-> d]

\* Path::join of a relative path.
Join(a, b) == a \o b

Parent(p) == SubSeq(p, 1, Len(p) - 1)

Prefixes(p) == {SubSeq(p, 1, n) : n \in 1..Len(p)}

\* A path on disk before the first call that no tree holds.
StaleRel == {<<nS>>}

RelUniverse == StaleRel \cup UNION {EntryPaths(t) : t \in Trees}

\* The paths of the filesystem when out_dir is o.
Nodes(o) == UNION {Prefixes(Join(Join(o, <<nProto>>), r)) : r \in RelUniverse}

\* The node at path p; the root directory always exists.
NodeAt(f, p) == IF p = <<>> THEN DirNode ELSE IF p \in DOMAIN f THEN f[p] ELSE Absent

IsDir(f, p) == NodeAt(f, p).k = "dir"

\* std::fs::create_dir(p): "ok" or the kind of the error.
MkdirErr(f, r, p) ==
    IF NodeAt(f, Parent(p)).k = "none" THEN "NotFound"
    ELSE IF NodeAt(f, Parent(p)).k = "file" THEN "NotADirectory"
    ELSE IF NodeAt(f, p).k # "none" THEN "AlreadyExists"
    ELSE IF Parent(p) \in r THEN "PermissionDenied"
    ELSE "ok"

\* An open with create_new: a file already at the path is an error.
OpenErrCreateNew(f, r, p) ==
    IF NodeAt(f, Parent(p)).k = "none" THEN "NotFound"
    ELSE IF NodeAt(f, Parent(p)).k = "file" THEN "NotADirectory"
    ELSE IF NodeAt(f, p).k # "none" THEN "AlreadyExists"
    ELSE IF Parent(p) \in r THEN "PermissionDenied"
    ELSE "ok"

\* File::create(p), the open of fs::write (create, write-only, truncate):
\* "ok" or the kind of the error.
OpenErr(f, r, p) ==
    IF NodeAt(f, Parent(p)).k = "none" THEN "NotFound"
    ELSE IF NodeAt(f, Parent(p)).k = "file" THEN "NotADirectory"
    ELSE IF NodeAt(f, p).k = "dir" THEN "IsADirectory"
    ELSE IF NodeAt(f, p).k = "file" /\ p \in r THEN "PermissionDenied"
    ELSE IF NodeAt(f, p).k = "none" /\ Parent(p) \in r THEN "PermissionDenied"
    ELSE "ok"

\* A file opened without truncation keeps the bytes it had.
OpenedKeep(node) == FileNode(node.data)

\* The node File::create leaves at the path: a new empty file, or the old
\* file truncated to no bytes.
Opened(node) == FileNode(<<>>)

Zeros(n) == [i \in 1..n |-> 0]

\* A write in append mode ignores the descriptor's offset.
WriteAppend(d, o, b) == Append(d, b)

\* One byte b written at the descriptor's offset o (bytes before it: o) into
\* a file holding d; a gap left by another writer's truncation reads as zeros.
WriteAt(d, o, b) ==
    IF o < Len(d) THEN [d EXCEPT ![o + 1] = b]
    ELSE d \o Zeros(o - Len(d)) \o <<b>>

(* ------------------------- the pattern lookup ------------------------- *)

\* "**/*proto": the dot left out.
ProtoPatternNoDot == <<"**", "*", "p", "r", "o", "t", "o">>

\* glob::Pattern::new("**/*.proto"): a leading "**/" is one recursive
\* wildcard, "*" a wildcard, every other character itself.
ProtoPattern == <<"**", "*", ".", "p", "r", "o", "t", "o">>

RECURSIVE PathStr(_)
\* The path as the string the pattern is matched against.
PathStr(p) ==
    IF Len(p) = 1 THEN Chars(p[1]) ELSE Chars(p[1]) \o <<"/">> \o PathStr(Tail(p))

RECURSIVE MatchesFrom(_, _, _, _)
RECURSIVE MatchLoop(_, _, _, _, _)
\* glob's Pattern::matches_from under MatchOptions::new() (no literal
\* separator, no literal leading dot): "Match", "Sub" (this sub-pattern does
\* not match) or "Entire" (the text ran out before the pattern).
MatchesFrom(follows, s, pos, ti) ==
    IF ti > Len(ProtoPattern) THEN (IF pos > Len(s) THEN "Match" ELSE "Sub")
    ELSE LET tok == ProtoPattern[ti]
         IN  IF tok \in {"**", "*"}
             THEN LET r == MatchesFrom(follows, s, pos, ti + 1)
                  IN  IF r # "Sub" THEN r ELSE MatchLoop(tok, follows, s, pos, ti)
             ELSE IF pos > Len(s) THEN "Entire"
             ELSE IF s[pos] # tok THEN "Sub"
             ELSE MatchesFrom(s[pos] = "/", s, pos + 1, ti + 1)

\* The wildcard's loop: it takes one more character and tries the rest.
MatchLoop(tok, follows, s, pos, ti) ==
    IF pos > Len(s) THEN MatchesFrom(follows, s, pos, ti + 1)
    ELSE LET sep == (s[pos] = "/")
         IN  IF tok = "**" /\ ~sep THEN MatchLoop(tok, sep, s, pos + 1, ti)
             ELSE LET r == MatchesFrom(sep, s, pos + 1, ti + 1)
                  IN  IF r # "Sub" THEN r ELSE MatchLoop(tok, sep, s, pos + 1, ti)

\* Pattern::matches_path.
MatchesPath(p) == MatchesFrom(TRUE, PathStr(p), 1, 1) = "Match"

RECURSIVE Globs(_)
\* include_dir's Globs iterator: pop the last entry of the stack, push a
\* directory's entries, yield the entry (file or directory) if it matches.
Globs(stack) ==
    IF stack = <<>> THEN <<>>
    ELSE LET item == stack[Len(stack)]
             rest == SubSeq(stack, 1, Len(stack) - 1)
         IN  (IF MatchesPath(item.path) THEN <<item.path>> ELSE <<>>)
             \o Globs(IF item.kind = "dir" THEN rest \o item.entries ELSE rest)

\* self.dir.find("**/*.proto")?.map(|f| f.path().to_path_buf()).collect()
FindProtos(t) == Globs(t)

(* -------------------------------- state -------------------------------- *)

\* Two calls of extract with the same tree and the same out_dir.
Calls == {1, 2}

\* The join left out: the tree is written into out_dir itself.
ProtoPathNoJoin(o) == o

\* let proto_path = out_dir.join("proto")
ProtoPath(o) == Join(o, <<nProto>>)

NoResult == [status |-> "none", path |-> <<>>, files |-> <<>>]
ErrResult == [status |-> "err", path |-> <<>>, files |-> <<>>]
OkResult(p, fl) == [status |-> "ok", path |-> p, files |-> fl]

\* Contents a file on disk may have before the first call: bytes no
\* embedded file holds.
PreContents == {[i \in 1..n |-> 9] : n \in 0..MaxLen}

PreValues == {DirNode} \cup {FileNode(d) : d \in PreContents}

\* The paths below out_dir/proto that may exist before the first call.
Relevant(t) == EntryPaths(t) \cup StaleRel

\* The filesystem in which out_dir is ok ("none", "file" or "dir"), its proto
\* child pk, and below it the paths of S as a gives them, their ancestors
\* directories.
MkFs(o, ok, pk, S, a) ==
    [n \in Nodes(o) |->
        IF n \in Prefixes(Parent(o)) THEN DirNode
        ELSE IF n = o THEN ok
        ELSE IF n = ProtoPath(o) THEN pk
        ELSE IF \E r \in S : n = Join(ProtoPath(o), r) THEN
            a[CHOOSE r \in S : n = Join(ProtoPath(o), r)]
        ELSE IF \E r \in S : n \in Prefixes(Join(ProtoPath(o), r)) THEN DirNode
        ELSE Absent]

\* No chosen path lies below a chosen file.
Consistent(S, a) ==
    \A r \in S : \A q \in S : (q # r /\ q \in Prefixes(r)) => a[q].k = "dir"

InitialFs(t, o) ==
    {MkFs(o, Absent, Absent, {}, <<>>), MkFs(o, FileNode(<<>>), Absent, {}, <<>>),
     MkFs(o, DirNode, Absent, {}, <<>>), MkFs(o, DirNode, FileNode(<<>>), {}, <<>>)}
    \cup UNION {{MkFs(o, DirNode, DirNode, S, a) :
                    a \in {b \in [S -> PreValues] : Consistent(S, b)}} :
                S \in {T \in SUBSET Relevant(t) : Cardinality(T) <= MaxPre}}

\* The paths the process may not write to (a file) or create entries in (a
\* directory): none, or one that exists.
ReadOnlySets(f) == {{}} \cup {{n} : n \in {m \in DOMAIN f : f[m].k # "none"}}

Init ==
    /\ tree \in Trees
    /\ outDir \in OutDirs
    /\ fs0 \in InitialFs(tree, outDir)
    /\ ro \in ReadOnlySets(fs0)
    /\ fs = fs0
    /\ pc = [c \in Calls |-> "idle"]
    /\ idx = [c \in Calls |-> 0]
    /\ cur = [c \in Calls |-> <<>>]
    /\ off = [c \in Calls |-> 0]
    /\ res = [c \in Calls |-> NoResult]
    /\ lookups = [c \in Calls |-> 0]
    /\ snap = [c \in Calls |-> <<>>]

(* ------------------------------- actions ------------------------------- *)

\* The entries of each tree in the order Dir::extract reaches them.
WalkOf == [t \in Trees |-> Walk(t)]

\* The entries of the tree being extracted.
Entries == WalkOf[tree]

Entry(c) == Entries[idx[c]]

\* base_path.join(entry.path())
Target(c) == Join(ProtoPath(outDir), Entry(c).path)

Returned(c) == pc[c] \in {"ok", "err"}

\* The files of the tree whose fs::write call c has finished.
WrittenBy(c) == {i \in 1..Len(Entries) : i < idx[c] /\ Entries[i].kind = "file"}

\* A failure that removed the files the call had written.
AfterFailureRollback(f, c) ==
    [n \in DOMAIN f |->
        IF \E i \in WrittenBy(c) : n = Join(ProtoPath(outDir), Entries[i].path)
        THEN Absent ELSE f[n]]

\* The filesystem an error leaves: `?` returns at once, nothing is undone.
AfterFailure(f, c) == f

\* A call that first empties the destination directory.
CallClearing(c) ==
    /\ pc[c] = "idle"
    /\ pc' = [pc EXCEPT ![c] = "loop"]
    /\ idx' = [idx EXCEPT ![c] = 1]
    /\ fs' = [n \in DOMAIN fs |->
                 IF Len(n) > Len(outDir) + 1
                    /\ SubSeq(n, 1, Len(outDir) + 1) = Join(outDir, <<nProto>>)
                 THEN Absent ELSE fs[n]]
    /\ UNCHANGED <<tree, outDir, fs0, ro, cur, off, res, lookups, snap>>

\* extract(out_dir) is called.
Call(c) ==
    /\ pc[c] = "idle"
    /\ pc' = [pc EXCEPT ![c] = "loop"]
    /\ idx' = [idx EXCEPT ![c] = 1]
    /\ UNCHANGED <<tree, outDir, fs0, ro, fs, cur, off, res, lookups, snap>>

\* The entry is done: on to the next.
Advance(c) ==
    /\ pc' = [pc EXCEPT ![c] = "loop"]
    /\ idx' = [idx EXCEPT ![c] = idx[c] + 1]
    /\ cur' = [cur EXCEPT ![c] = <<>>]
    /\ off' = [off EXCEPT ![c] = 0]
    /\ UNCHANGED <<res, lookups, snap>>

\* A system call failed: Dir::extract returns the error and so does extract.
Fail(c) ==
    /\ fs' = AfterFailure(fs, c)
    /\ pc' = [pc EXCEPT ![c] = "err"]
    /\ res' = [res EXCEPT ![c] = ErrResult]
    /\ snap' = [snap EXCEPT ![c] = fs']
    /\ UNCHANGED <<idx, cur, off, lookups>>

\* One mkdir of fs::create_dir_all(path) for a directory entry: the path
\* itself first, on NotFound its parent ("mkdown"), and once an ancestor is
\* there the way back to the path ("mkup").  An error other than NotFound
\* counts as success when the path is a directory.
MkdirStep(c) ==
    /\ \/ pc[c] = "loop" /\ idx[c] <= Len(Entries) /\ Entry(c).kind = "dir"
       \/ pc[c] \in {"mkdown", "mkup"}
    /\ LET p == IF pc[c] = "loop" THEN Target(c) ELSE cur[c]
           r == MkdirErr(fs, ro, p)
       IN  IF r = "ok" \/ (r # "NotFound" /\ IsDir(fs, p))
           THEN /\ fs' = IF r = "ok" THEN [fs EXCEPT ![p] = DirNode] ELSE fs
                /\ IF p = Target(c)
                   THEN Advance(c)
                   ELSE /\ pc' = [pc EXCEPT ![c] = "mkup"]
                        /\ cur' = [cur EXCEPT ![c] = SubSeq(Target(c), 1, Len(p) + 1)]
                        /\ UNCHANGED <<idx, off, res, lookups, snap>>
           ELSE IF r = "NotFound" /\ pc[c] # "mkup"
           THEN /\ pc' = [pc EXCEPT ![c] = "mkdown"]
                /\ cur' = [cur EXCEPT ![c] = Parent(p)]
                /\ UNCHANGED <<fs, idx, off, res, lookups, snap>>
           ELSE Fail(c)
    /\ UNCHANGED <<tree, outDir, fs0, ro>>

\* The open of fs::write(path, contents) for a file entry.
OpenStep(c) ==
    /\ pc[c] = "loop" /\ idx[c] <= Len(Entries) /\ Entry(c).kind = "file"
    /\ IF OpenErr(fs, ro, Target(c)) = "ok"
       THEN /\ fs' = [fs EXCEPT ![Target(c)] = Opened(@)]
            /\ IF Entry(c).contents = <<>>
               THEN Advance(c)
               ELSE /\ pc' = [pc EXCEPT ![c] = "write"]
                    /\ UNCHANGED <<idx, cur, off, res, lookups, snap>>
       ELSE Fail(c)
    /\ UNCHANGED <<tree, outDir, fs0, ro>>

\* One write of write_all: the next byte at the descriptor's offset.
WriteStep(c) ==
    /\ pc[c] = "write"
    /\ fs' = [fs EXCEPT ![Target(c)] =
                 FileNode(WriteAt(@.data, off[c], Entry(c).contents[off[c] + 1]))]
    /\ IF off[c] + 1 = Len(Entry(c).contents)
       THEN Advance(c)
       ELSE /\ off' = [off EXCEPT ![c] = off[c] + 1]
            /\ UNCHANGED <<pc, idx, cur, res, lookups, snap>>
    /\ UNCHANGED <<tree, outDir, fs0, ro>>

\* Dir::extract returned Ok(()): the pattern lookup, and extract returns Ok.
Return(c) ==
    /\ pc[c] = "loop" /\ idx[c] > Len(Entries)
    /\ pc' = [pc EXCEPT ![c] = "ok"]
    /\ lookups' = [lookups EXCEPT ![c] = lookups[c] + 1]
    /\ res' = [res EXCEPT ![c] = OkResult(ProtoPath(outDir), FindProtos(tree))]
    /\ snap' = [snap EXCEPT ![c] = fs]
    /\ UNCHANGED <<tree, outDir, fs0, ro, fs, idx, cur, off>>

\* One caller: the second call starts when the first has returned.
CallInSequence(c) ==
    /\ \A d \in Calls : d < c => Returned(d)
    /\ Call(c)

Next ==
    \E c \in Calls :
        CallInSequence(c) \/ MkdirStep(c) \/ OpenStep(c) \/ WriteStep(c) \/ Return(c)

Spec == Init /\ [][Next]_vars

\* Two callers (threads or build scripts) with nothing between them.
NextConc ==
    \E c \in Calls :
        Call(c) \/ MkdirStep(c) \/ OpenStep(c) \/ WriteStep(c) \/ Return(c)

SpecConc == Init /\ [][NextConc]_vars

(* ------------------------------- claims -------------------------------- *)

\* The path on disk of the entry at relative path p.
OnDisk(p) == Join(ProtoPath(outDir), p)

FileEntries == {e \in Range(Entries) : e.kind = "file"}

\* The name ends in ".proto".
EndsInProto(n) ==
    LET s == Chars(n)
    IN  Len(s) >= 6 /\ SubSeq(s, Len(s) - 5, Len(s)) = <<".", "p", "r", "o", "t", "o">>

Last(p) == p[Len(p)]

\* C1 (round trip): when extract returns Ok, every file of the embedded tree
\* is, at that moment, a file at out_dir/proto/p holding exactly its embedded
\* contents, whatever was on disk before.
C1_RoundTrip ==
    \A c \in Calls :
        pc[c] = "ok" =>
            \A e \in FileEntries : NodeAt(snap[c], OnDisk(e.path)) = FileNode(e.contents)

\* C1 witness: a call returned Ok where a longer file with other contents
\* was at the target path before.
C1_Witness ==
    /\ pc[1] = "ok"
    /\ \E e \in FileEntries :
          /\ fs0[OnDisk(e.path)].k = "file"
          /\ Len(fs0[OnDisk(e.path)].data) > Len(e.contents)
          /\ e.contents # <<>>

C3_Idempotent ==
    (Returned(1) /\ Returned(2)) =>
        /\ pc[2] = pc[1]
        /\ snap[2] = snap[1]
        /\ res[2].path = res[1].path
        /\ Range(res[2].files) = Range(res[1].files)

\* C3 witness: both calls returned Ok and the second rewrote a file with
\* contents.
C3_Witness ==
    /\ pc[1] = "ok" /\ pc[2] = "ok"
    /\ \E e \in FileEntries : Len(e.contents) = 2

\* C4 (missing parents are created): with out_dir there and out_dir/proto
\* not, a tree holding only README.md is extracted: Ok, the file written, no
\* protos.
C4_ReadmeOnlyExtracts ==
    ( /\ tree = TReadme
      /\ IsDir(fs0, outDir) /\ fs0[ProtoPath(outDir)].k = "none" /\ ro = {}
      /\ Returned(1) ) =>
        /\ pc[1] = "ok"
        /\ NodeAt(snap[1], OnDisk(<<nReadme>>)) = FileNode(<<1>>)
        /\ res[1].files = <<>>

\* C5 (failure policy): the step that fails changes nothing on disk, leaves
\* an error and no tree as the result, with every file the call had written
\* still holding its embedded contents; after it the call takes no step: no
\* write, no pattern lookup.
C5_FailureStops ==
    [][\A c \in Calls :
          /\ (pc[c] # "err" /\ pc'[c] = "err") =>
                /\ fs' = fs
                /\ res'[c] = ErrResult
                /\ lookups'[c] = 0
                /\ \A i \in WrittenBy(c) :
                      NodeAt(fs', OnDisk(Entries[i].path)) = FileNode(Entries[i].contents)
          /\ pc[c] = "err" =>
                /\ pc'[c] = "err" /\ idx'[c] = idx[c] /\ off'[c] = off[c]
                /\ cur'[c] = cur[c] /\ res'[c] = res[c] /\ lookups'[c] = 0
                /\ snap'[c] = snap[c]]_vars

\* C5 witness: a call failed after it had written a file.
C5_Witness == pc[1] = "err" /\ WrittenBy(1) # {} /\ pc[2] = "idle"

\* C6 (matched files are files on disk): after a successful extract every
\* entry of protos() is a regular file at as_path() joined with it, with a
\* name ending in ".proto".
C6_MatchedAreFiles ==
    \A c \in Calls :
        pc[c] = "ok" =>
            \A p \in Range(res[c].files) :
                /\ NodeAt(snap[c], Join(res[c].path, p)).k = "file"
                /\ EndsInProto(Last(p))

\* C7 (concurrent extraction is benign): when two interleaved calls have
\* both returned Ok, every file of the tree is on disk with exactly its
\* embedded contents and both report the same path and the same files.
C7_ConcurrentBenign ==
    (pc[1] = "ok" /\ pc[2] = "ok") =>
        /\ \A e \in FileEntries : NodeAt(fs, OnDisk(e.path)) = FileNode(e.contents)
        /\ res[1].path = res[2].path
        /\ res[1].files = res[2].files

\* C7 witness: both returned Ok, and one returned while the other was still
\* writing (the file was not whole then).
C7_Witness ==
    /\ pc[1] = "ok" /\ pc[2] = "ok"
    /\ \E e \in FileEntries : NodeAt(snap[1], OnDisk(e.path)) # FileNode(e.contents)

\* C8 (path convention): the path of an Ok result is out_dir with the one
\* further segment "proto".
C8_PathConvention ==
    \A c \in Calls :
        pc[c] = "ok" =>
            /\ Len(res[c].path) = Len(outDir) + 1
            /\ Parent(res[c].path) = outDir
            /\ Last(res[c].path) = "proto"

\* C8 witness: Ok for the longer out_dir, a tree with entries, and files on
\* disk before the call.
C8_Witness ==
    /\ pc[1] = "ok" /\ outDir = <<nTmp, nOut>> /\ Entries # <<>>
    /\ \E r \in StaleRel : fs0[OnDisk(r)].k = "file"

\* C9 (the destination exists): with out_dir there before the call, the path
\* of an Ok result is a directory on disk when the call returns.
C9_DestinationExists ==
    \A c \in Calls :
        (pc[c] = "ok" /\ IsDir(fs0, outDir)) => IsDir(snap[c], res[c].path)

\* C10 (only overwrites or adds): no step removes a path, no step changes a
\* path on disk that is not an entry of the tree, and an Ok result lists only
\* paths of the tree, so no file a different tree left behind.
C10_OnlyAdds ==
    [][/\ \A n \in DOMAIN fs : fs[n].k # "none" => fs'[n].k # "none"
       /\ \A n \in DOMAIN fs :
             (fs[n].k # "none" /\ n \notin {OnDisk(p) : p \in EntryPaths(tree)}) =>
                 fs'[n] = fs[n]
       /\ \A c \in Calls :
             pc'[c] = "ok" =>
                 /\ Range(res'[c].files) \subseteq EntryPaths(tree)
                 /\ \A r \in StaleRel \ EntryPaths(tree) :
                       r \notin Range(res'[c].files) /\ fs'[OnDisk(r)] = fs0[OnDisk(r)]]_vars

\* C10 witness: a .proto file of no entry was on disk before a call that
\* wrote files and returned Ok.
C10_Witness ==
    /\ pc[1] = "ok" /\ FileEntries # {}
    /\ \E r \in StaleRel \ EntryPaths(tree) : fs[OnDisk(r)].k = "file"

====
